---- MODULE Spec2Model ----
(***************************************************************************)
(* Model of src/app.py: a Streamlit script that turns an uploaded PDF into *)
(* a blog-style summary.  One execution of the script ("run") is modelled  *)
(* step by step; Rerun starts the next execution of the script.            *)
(*                                                                         *)
(* Strings are run-length encoded: a string is a sequence of naturals in   *)
(* which 0 stands for one newline character and n > 0 for a maximal run of *)
(* n characters that are neither newlines nor whitespace.  The empty       *)
(* string is << >>.  Optional values (Python's None) are sequences of      *)
(* length 0 (None) or 1 (a value).                                         *)
(***************************************************************************)
EXTENDS Integers, Sequences, FiniteSets, TLC

\* Largest number of pages of an uploaded document.
MaxPages == 2

\* CharacterTextSplitter(separator="\n", chunk_size=1000, chunk_overlap=200)
SepLen == 1
ChunkSize == 1000
ChunkOverlap == 200

None == << >>
Some(x) == << x >>

\* The text page.get_text() can return for one page (<< >>: image-only page).
PageTexts == { << >>, <<300>>, <<600, 0, 150, 0>>, <<500, 0>>, <<1200>>, <<0>> }

\* The documents a user can upload: page sequences of at most MaxPages pages.
Docs == UNION { [1..n -> PageTexts] : n \in 0..MaxPages }

\* The values response["result"] can hold.
Summaries == { << >>, <<40>>, <<40, 0, 20>> }

\* What qa_chain.invoke can return: a dict without "result" (None) or with it.
Responses == { None } \cup { Some(s) : s \in Summaries }

VARIABLES
    HUGGINGFACE_TOKEN,  \* TRUE iff os.environ has a non-empty HUGGINGFACE_TOKEN
    GROQ_API_KEY,       \* TRUE iff os.environ has a non-empty GROQ_API_KEY
    pc,                 \* position of the script
    pdf_file,           \* st.file_uploader's value: None or Some(document)
    ui,                 \* messages rendered in this run, in order
    loginCalls,         \* calls of login(HUGGINGFACE_TOKEN) in this run
    exported,           \* os.environ["GROQ_API_KEY"] was assigned in this run
    unhandled,          \* an exception left the script uncaught
    raised,             \* the external calls that raised in this run
    calls,              \* the functions and constructors called in this run
    tmp_file,           \* content written to the temporary file
    text,               \* get_pdf_text's local accumulator
    pageIdx,            \* get_pdf_text's loop position
    raw_text,           \* result of get_pdf_text
    shownCount,         \* the character count of the "Extracted" message
    text_chunks,        \* result of get_text_chunks
    vectorstore,        \* "unset", "None" or "index"
    response,           \* value returned by qa_chain.invoke
    invokeCalls,        \* calls of qa_chain.invoke in this run
    query,              \* the query passed to qa_chain.invoke
    blog_summary,       \* unset/None (<< >>) or Some(summary)
    download            \* content of the summary.txt download button

vars == << HUGGINGFACE_TOKEN, GROQ_API_KEY, pc, pdf_file, ui, loginCalls, exported,
           unhandled, raised, calls, tmp_file, text, pageIdx, raw_text, shownCount,
           text_chunks, vectorstore, response, invokeCalls, query, blog_summary,
           download >>

env == << HUGGINGFACE_TOKEN, GROQ_API_KEY >>

----------------------------------------------------------------------------
(* Strings *)

Last(s) == s[Len(s)]

\* len(s): characters of a run-length encoded string.
RECURSIVE StrLen(_)
StrLen(s) == IF s = << >> THEN 0
             ELSE (IF Head(s) = 0 THEN 1 ELSE Head(s)) + StrLen(Tail(s))

\* s + t: adjacent runs merge into one run.
Cat(s, t) ==
    IF s = << >> THEN t
    ELSE IF t = << >> THEN s
    ELSE IF Last(s) > 0 /\ Head(t) > 0
         THEN SubSeq(s, 1, Len(s) - 1) \o << Last(s) + Head(t) >> \o Tail(t)
         ELSE s \o t

\* The text of pages 1..n of doc, concatenated in page order.
RECURSIVE PagesText(_, _)
PagesText(doc, n) == IF n = 0 THEN << >> ELSE Cat(PagesText(doc, n - 1), doc[n])

----------------------------------------------------------------------------
(* get_text_chunks: CharacterTextSplitter.split_text with separator "\n",  *)
(* chunk_size 1000, chunk_overlap 200, length_function len.  The splitter  *)
(* cuts the text at every separator, drops the empty pieces and merges     *)
(* consecutive pieces into chunks (its _merge_splits loop).  A chunk under *)
(* construction is the sequence of the indices of its pieces.              *)

\* The pieces between separators, empty pieces dropped: the lengths of the lines.
SplitOnSeparator(t) == SelectSeq(t, LAMBDA x : x # 0)

\* The loop that drops leading pieces of the current chunk after it was emitted:
\* while total > chunk_overlap or (total + len + sep > chunk_size and total > 0).
RECURSIVE PopDoc(_, _, _, _)
PopDoc(splits, cur, total, dlen) ==
    IF \/ total > ChunkOverlap
       \/ /\ total + dlen + (IF Len(cur) > 0 THEN SepLen ELSE 0) > ChunkSize
          /\ total > 0
    THEN PopDoc(splits, Tail(cur),
                total - (splits[Head(cur)] + (IF Len(cur) > 1 THEN SepLen ELSE 0)),
                dlen)
    ELSE << cur, total >>

\* The merge loop from piece i on; docs are the chunks emitted so far.
RECURSIVE MergeFrom(_, _, _, _, _)
MergeFrom(splits, i, docs, cur, total) ==
    IF i > Len(splits)
    THEN IF cur # << >> THEN Append(docs, cur) ELSE docs
    ELSE LET dlen   == splits[i]
             emit   == /\ total + dlen + (IF Len(cur) > 0 THEN SepLen ELSE 0) > ChunkSize
                       /\ Len(cur) > 0
             docs2  == IF emit THEN Append(docs, cur) ELSE docs
             popped == IF emit THEN PopDoc(splits, cur, total, dlen) ELSE << cur, total >>
             cur2   == Append(popped[1], i)
             total2 == popped[2] + dlen + (IF Len(cur2) > 1 THEN SepLen ELSE 0)
         IN  MergeFrom(splits, i + 1, docs2, cur2, total2)

\* The chunks of t, each as the sequence of the indices of its lines.
ChunkDocs(t) == MergeFrom(SplitOnSeparator(t), 1, << >>, << >>, 0)

\* separator.join(lines of the chunk)
JoinDocs(splits, cur) ==
    [k \in 1..(2 * Len(cur) - 1) |->
        IF k % 2 = 1 THEN splits[cur[(k + 1) \div 2]] ELSE 0]

get_text_chunks(t) ==
    LET splits == SplitOnSeparator(t)
        docs   == ChunkDocs(t)
    IN  [i \in 1..Len(docs) |-> JoinDocs(splits, docs[i])]

----------------------------------------------------------------------------
(* Conditions and values of the script *)

\* Variant: warns only when both tokens are missing.
MissingBothTokens(hf, groq) == ~hf /\ ~groq

\* if not HUGGINGFACE_TOKEN or not GROQ_API_KEY
MissingToken(hf, groq) == ~hf \/ ~groq

\* Variant: the emptiness test is missing.
NeverEmpty(t) == FALSE

\* if not raw_text
NotRawText(t) == t = << >>

\* Variant: the except branch returns an index as well.
VectorstoreAlwaysIndex(ok) == "index"

\* get_vectorstore's return value: the index, or None from the except branch
VectorstoreResult(ok) == IF ok THEN "index" ELSE "None"

\* Variant: the None test is missing.
VectorstoreUnchecked(v) == TRUE

\* if vectorstore is not None
VectorstoreIsNotNone(v) == v # "None"

\* Variant: the except branch stores a text (say the error text) as the summary.
SummaryIsErrorText == Some(<<40>>)

\* blog_summary = None in the summary step's except branch
SummaryAfterError == None

\* if blog_summary
Truthy(b) == b # None /\ b[1] # << >>

----------------------------------------------------------------------------
(* The script *)

startVars   == << loginCalls, exported >>
extractVars == << tmp_file, text, pageIdx, raw_text, shownCount >>
indexVars   == << text_chunks, vectorstore >>
summaryVars == << response, invokeCalls, query, blog_summary, download >>

Init ==
    /\ HUGGINGFACE_TOKEN \in BOOLEAN
    /\ GROQ_API_KEY \in BOOLEAN
    /\ pc = "start"
    /\ pdf_file = None
    /\ ui = << >>
    /\ loginCalls = 0
    /\ exported = FALSE
    /\ unhandled = FALSE
    /\ raised = {}
    /\ calls = {}
    /\ tmp_file = None
    /\ text = << >>
    /\ pageIdx = 0
    /\ raw_text = << >>
    /\ shownCount = 0
    /\ text_chunks = << >>
    /\ vectorstore = "unset"
    /\ response = None
    /\ invokeCalls = 0
    /\ query = None
    /\ blog_summary = None
    /\ download = None

\* Lines 19-24: read the tokens, warn if one is missing.
CredentialLoader ==
    /\ pc = "start"
    /\ ui' = IF MissingToken(HUGGINGFACE_TOKEN, GROQ_API_KEY)
             THEN Append(ui, "warning") ELSE ui
    /\ pc' = "login"
    /\ UNCHANGED << env, pdf_file, startVars, unhandled, raised, calls,
                    extractVars, indexVars, summaryVars >>

\* Lines 27-28: login(HUGGINGFACE_TOKEN), outside every try block.
Login ==
    /\ pc = "login"
    /\ IF HUGGINGFACE_TOKEN
       THEN \E ok \in BOOLEAN :
              /\ loginCalls' = loginCalls + 1
              /\ IF ok
                 THEN /\ pc' = "export"
                      /\ UNCHANGED << unhandled, raised >>
                 ELSE /\ pc' = "crashed"
                      /\ unhandled' = TRUE
                      /\ raised' = raised \cup {"login"}
       ELSE /\ pc' = "export"
            /\ UNCHANGED << loginCalls, unhandled, raised >>
    /\ UNCHANGED << env, pdf_file, ui, exported, calls,
                    extractVars, indexVars, summaryVars >>

\* Lines 29-30: re-export the Groq key.
ExportKey ==
    /\ pc = "export"
    /\ exported' = GROQ_API_KEY
    /\ pc' = "uploader"
    /\ UNCHANGED << env, pdf_file, ui, loginCalls, unhandled, raised, calls,
                    extractVars, indexVars, summaryVars >>

\* Lines 106-108: the uploader; without a file the script ends.
FileUploader ==
    /\ pc = "uploader"
    /\ pc' = IF pdf_file # None THEN "write_tmp" ELSE "idle"
    /\ UNCHANGED << env, pdf_file, ui, startVars, unhandled, raised, calls,
                    extractVars, indexVars, summaryVars >>

\* The outer handler, lines 152-153.
OuterExcept(stage) ==
    /\ raised' = raised \cup {stage}
    /\ ui' = Append(ui, "outer_error")
    /\ pc' = "done"

\* Lines 110-112: write the upload to a temporary file.
WriteTemp ==
    /\ pc = "write_tmp"
    /\ \E ok \in BOOLEAN :
         IF ok
         THEN /\ tmp_file' = pdf_file
              /\ pc' = "open"
              /\ UNCHANGED << ui, raised >>
         ELSE /\ OuterExcept("tmp")
              /\ UNCHANGED tmp_file
    /\ UNCHANGED << env, pdf_file, startVars, unhandled, calls, text, pageIdx,
                    raw_text, shownCount, indexVars, summaryVars >>

\* The except branch of get_pdf_text, lines 40-41.
ExtractExcept(stage) ==
    /\ raised' = raised \cup {stage}
    /\ ui' = Append(ui, "extract_error")
    /\ pc' = "return_text"

\* Lines 34-36: text = "", doc = fitz.open(path).
OpenPdf ==
    /\ pc = "open"
    /\ text' = << >>
    /\ \E ok \in BOOLEAN :
         IF ok
         THEN /\ pageIdx' = 1
              /\ pc' = "pages"
              /\ UNCHANGED << ui, raised >>
         ELSE /\ ExtractExcept("open")
              /\ UNCHANGED pageIdx
    /\ UNCHANGED << env, pdf_file, startVars, unhandled, calls, tmp_file,
                    raw_text, shownCount, indexVars, summaryVars >>

\* Lines 37-38: one iteration of the page loop.
ReadPage ==
    /\ pc = "pages"
    /\ pageIdx <= Len(tmp_file[1])
    /\ \E ok \in BOOLEAN :
         IF ok
         THEN /\ text' = Cat(text, tmp_file[1][pageIdx])
              /\ pageIdx' = pageIdx + 1
              /\ UNCHANGED << pc, ui, raised >>
         ELSE /\ ExtractExcept("page")
              /\ UNCHANGED << text, pageIdx >>
    /\ UNCHANGED << env, pdf_file, startVars, unhandled, calls, tmp_file,
                    raw_text, shownCount, indexVars, summaryVars >>

\* Line 39: doc.close() after the last page.
ClosePdf ==
    /\ pc = "pages"
    /\ pageIdx > Len(tmp_file[1])
    /\ \E ok \in BOOLEAN :
         IF ok
         THEN /\ pc' = "return_text"
              /\ UNCHANGED << ui, raised >>
         ELSE ExtractExcept("close")
    /\ UNCHANGED << env, pdf_file, startVars, unhandled, calls, tmp_file, text,
                    pageIdx, raw_text, shownCount, indexVars, summaryVars >>

\* Lines 42 and 115: return text; raw_text = get_pdf_text(tmp_path).
ReturnText ==
    /\ pc = "return_text"
    /\ raw_text' = text
    /\ calls' = calls \cup {"get_pdf_text"}
    /\ pc' = "check_text"
    /\ UNCHANGED << env, pdf_file, ui, startVars, unhandled, raised, tmp_file,
                    text, pageIdx, shownCount, indexVars, summaryVars >>

\* Lines 117-120.
CheckText ==
    /\ pc = "check_text"
    /\ IF NotRawText(raw_text)
       THEN /\ ui' = Append(ui, "no_text")
            /\ pc' = "done"
            /\ UNCHANGED shownCount
       ELSE /\ ui' = Append(ui, "extracted")
            /\ shownCount' = StrLen(raw_text)
            /\ pc' = "split"
    /\ UNCHANGED << env, pdf_file, startVars, unhandled, raised, calls, tmp_file,
                    text, pageIdx, raw_text, indexVars, summaryVars >>

\* Line 123: text_chunks = get_text_chunks(raw_text).
SplitText ==
    /\ pc = "split"
    /\ calls' = calls \cup {"get_text_chunks"}
    /\ \E ok \in BOOLEAN :
         IF ok
         THEN /\ text_chunks' = get_text_chunks(raw_text)
              /\ pc' = "embed"
              /\ UNCHANGED << ui, raised >>
         ELSE /\ OuterExcept("split")
              /\ UNCHANGED text_chunks
    /\ UNCHANGED << env, pdf_file, startVars, unhandled, extractVars, vectorstore,
                    summaryVars >>

\* Lines 55-66 and 124: vectorstore = get_vectorstore(text_chunks).
Embed ==
    /\ pc = "embed"
    /\ calls' = calls \cup {"get_vectorstore"}
    /\ \E ok \in BOOLEAN :
         /\ vectorstore' = VectorstoreResult(ok)
         /\ IF ok
            THEN UNCHANGED << ui, raised >>
            ELSE /\ raised' = raised \cup {"embed"}
                 /\ ui' = Append(ui, "embed_error")
    /\ pc' = "check_vs"
    /\ UNCHANGED << env, pdf_file, startVars, unhandled, extractVars, text_chunks,
                    summaryVars >>

\* Lines 126-127.
CheckVectorstore ==
    /\ pc = "check_vs"
    /\ IF VectorstoreIsNotNone(vectorstore)
       THEN /\ ui' = Append(ui, "vs_success")
            /\ pc' = "llm"
       ELSE /\ pc' = "done"
            /\ UNCHANGED ui
    /\ UNCHANGED << env, pdf_file, startVars, unhandled, raised, calls,
                    extractVars, indexVars, summaryVars >>

\* The except branch of the summary step, lines 144-146.
SummaryExcept(stage) ==
    /\ raised' = raised \cup {stage}
    /\ ui' = Append(ui, "summary_error")
    /\ blog_summary' = SummaryAfterError
    /\ pc' = "show"

\* Lines 131-135: llm = ChatGroq(...).
BuildLLM ==
    /\ pc = "llm"
    /\ calls' = calls \cup {"ChatGroq"}
    /\ \E ok \in BOOLEAN :
         IF ok
         THEN /\ pc' = "chain"
              /\ UNCHANGED << ui, raised, blog_summary >>
         ELSE SummaryExcept("ChatGroq")
    /\ UNCHANGED << env, pdf_file, startVars, unhandled, extractVars, indexVars,
                    response, invokeCalls, query, download >>

\* Lines 136-140: qa_chain = RetrievalQA.from_chain_type(...).
BuildChain ==
    /\ pc = "chain"
    /\ calls' = calls \cup {"from_chain_type"}
    /\ \E ok \in BOOLEAN :
         IF ok
         THEN /\ pc' = "invoke"
              /\ UNCHANGED << ui, raised, blog_summary >>
         ELSE SummaryExcept("chain")
    /\ UNCHANGED << env, pdf_file, startVars, unhandled, extractVars, indexVars,
                    response, invokeCalls, query, download >>

\* Line 142: response = qa_chain.invoke({"query": raw_text}); the call returns,
\* exceeds request_timeout or raises another error.
Invoke ==
    /\ pc = "invoke"
    /\ calls' = calls \cup {"invoke"}
    /\ invokeCalls' = invokeCalls + 1
    /\ query' = Some(raw_text)
    /\ \/ \E r \in Responses :
            /\ response' = r
            /\ pc' = "result"
            /\ UNCHANGED << ui, raised, blog_summary >>
       \/ \E failure \in {"timeout", "invoke_error"} :
            /\ SummaryExcept(failure)
            /\ UNCHANGED response
    /\ UNCHANGED << env, pdf_file, startVars, unhandled, extractVars, indexVars,
                    download >>

\* Line 143: blog_summary = response["result"]; KeyError without the entry.
ReadResult ==
    /\ pc = "result"
    /\ IF response = None
       THEN SummaryExcept("no_result")
       ELSE /\ blog_summary' = response
            /\ pc' = "show"
            /\ UNCHANGED << ui, raised >>
    /\ UNCHANGED << env, pdf_file, startVars, unhandled, calls, extractVars,
                    indexVars, response, invokeCalls, query, download >>

\* Lines 148-151: show the summary and its download button.
ShowSummary ==
    /\ pc = "show"
    /\ IF Truthy(blog_summary)
       THEN /\ ui' = Append(ui, "summary")
            /\ download' = blog_summary
       ELSE UNCHANGED << ui, download >>
    /\ pc' = "done"
    /\ UNCHANGED << env, pdf_file, startVars, unhandled, raised, calls,
                    extractVars, indexVars, response, invokeCalls, query,
                    blog_summary >>

\* The next execution of the script: the user uploads a file (or clears the
\* uploader) and Streamlit runs the script again from its first line.
Rerun ==
    /\ pc \in {"idle", "done", "crashed"}
    /\ pdf_file' \in {None} \cup {Some(d) : d \in Docs}
    /\ pc' = "start"
    /\ ui' = << >>
    /\ loginCalls' = 0
    /\ exported' = FALSE
    /\ unhandled' = FALSE
    /\ raised' = {}
    /\ calls' = {}
    /\ tmp_file' = None
    /\ text' = << >>
    /\ pageIdx' = 0
    /\ raw_text' = << >>
    /\ shownCount' = 0
    /\ text_chunks' = << >>
    /\ vectorstore' = "unset"
    /\ response' = None
    /\ invokeCalls' = 0
    /\ query' = None
    /\ blog_summary' = None
    /\ download' = None
    /\ UNCHANGED env

Next ==
    \/ CredentialLoader
    \/ Login
    \/ ExportKey
    \/ FileUploader
    \/ WriteTemp
    \/ OpenPdf
    \/ ReadPage
    \/ ClosePdf
    \/ ReturnText
    \/ CheckText
    \/ SplitText
    \/ Embed
    \/ CheckVectorstore
    \/ BuildLLM
    \/ BuildChain
    \/ Invoke
    \/ ReadResult
    \/ ShowSummary
    \/ Rerun

Spec == Init /\ [][Next]_vars

----------------------------------------------------------------------------
(* Properties *)

Shown(m) == \E i \in DOMAIN ui : ui[i] = m

SummaryCalls == {"ChatGroq", "from_chain_type", "invoke"}
ExtractFailures == {"open", "page", "close"}
SummaryFailures == {"ChatGroq", "chain", "timeout", "invoke_error", "no_result"}

\* C1: when get_pdf_text returned the empty string, the run shows the "no text"
\* error as its last message and ends; get_text_chunks, get_vectorstore,
\* ChatGroq, RetrievalQA and invoke are never called in that run.
C1_EmptyTextHalts ==
    ("get_pdf_text" \in calls /\ raw_text = << >>) =>
        /\ pc \in {"check_text", "done"}
        /\ calls = {"get_pdf_text"}
        /\ invokeCalls = 0
        /\ pc = "done" => (ui # << >> /\ Last(ui) = "no_text")

\* C1 witness: a run over a document of image-only pages that has ended.
C1_Witness ==
    /\ pc = "done"
    /\ "get_pdf_text" \in calls
    /\ raw_text = << >>
    /\ Len(tmp_file[1]) > 0
    /\ raised = {}

\* C2: when get_vectorstore's body raised, it returned None and reported the
\* embedding error, and the run halts: no LLM client, no chain, no query, no
\* summary and no download button.
C2_EmbeddingFailureHalts ==
    "embed" \in raised =>
        /\ vectorstore = "None"
        /\ Shown("embed_error")
        /\ pc \in {"check_vs", "done"}
        /\ calls \cap SummaryCalls = {}
        /\ invokeCalls = 0
        /\ ~Shown("summary")
        /\ download = None

C2_Witness == "embed" \in raised /\ pc = "done"

\* C3: when a step of the summary try block raised (constructor, chain, timeout,
\* other invoke error, missing "result"), the summary error is reported,
\* blog_summary is None, and neither summary nor download button is shown.
C3_SummaryFailureReported ==
    raised \cap SummaryFailures # {} =>
        /\ Shown("summary_error")
        /\ blog_summary = None
        /\ ~Shown("summary")
        /\ download = None

C3_Witness == "timeout" \in raised /\ pc = "done"

\* C4 (as claimed): no external call's failure is ever an unhandled exception;
\* every failure is shown as a message.
C4_AllBoundariesWrapped ==
    /\ ~unhandled
    /\ raised # {} =>
          \/ Shown("extract_error") \/ Shown("embed_error")
          \/ Shown("summary_error") \/ Shown("outer_error")

\* C5 (as claimed): with a token absent, startup only warns and proceeds (login
\* skipped without the HuggingFace token, no re-export without the Groq key),
\* downstream failures are reported, and no run ends in an unhandled exception.
C5_AbsentCredentialGraceful ==
    (~HUGGINGFACE_TOKEN \/ ~GROQ_API_KEY) =>
        /\ pc # "start" => (ui # << >> /\ Head(ui) = "warning")
        /\ ~HUGGINGFACE_TOKEN => loginCalls = 0
        /\ ~GROQ_API_KEY => ~exported
        /\ "embed" \in raised => Shown("embed_error")
        /\ raised \cap SummaryFailures # {} => Shown("summary_error")
        /\ ~unhandled

\* C6 (as claimed): get_pdf_text returns the pages' text concatenated in page
\* order when nothing raised, and the empty string whenever fitz.open or a
\* page's get_text raised, however many pages were read before.
C6_ExtractAllOrNothing ==
    "get_pdf_text" \in calls =>
        /\ raised \cap ExtractFailures = {} =>
              raw_text = PagesText(tmp_file[1], Len(tmp_file[1]))
        /\ raised \cap {"open", "page"} # {} => raw_text = << >>

\* C7 (as claimed): without HUGGINGFACE_TOKEN, a run over a valid text-bearing
\* PDF that reaches the embedding step shows the startup warning, fails in
\* get_vectorstore with the embedding error, and attempts no summarization.
C7_NoTokenEmbeddingFails ==
    ( /\ ~HUGGINGFACE_TOKEN
      /\ pc = "done"
      /\ "get_vectorstore" \in calls
      /\ text_chunks # << >>
      /\ raised \cap ExtractFailures = {} ) =>
        /\ Shown("warning")
        /\ "embed" \in raised
        /\ Shown("embed_error")
        /\ calls \cap SummaryCalls = {}

\* C7 (amended): without HUGGINGFACE_TOKEN the warning is the first message of
\* the run and login is not called; whenever get_vectorstore then fails, the
\* embedding error is shown and no summarization is attempted in that run.
C7_NoTokenWarnsAndFailureHalts ==
    ~HUGGINGFACE_TOKEN =>
        /\ loginCalls = 0
        /\ pc # "start" => (ui # << >> /\ Head(ui) = "warning")
        /\ "embed" \in raised =>
              /\ Shown("embed_error")
              /\ calls \cap SummaryCalls = {}
              /\ invokeCalls = 0

C7_Witness ==
    /\ ~HUGGINGFACE_TOKEN
    /\ GROQ_API_KEY
    /\ pc = "done"
    /\ "embed" \in raised
    /\ raised \cap ExtractFailures = {}

\* The characters two consecutive chunks share: the lines that are in both.
Overlap(t, i) ==
    LET docs   == ChunkDocs(t)
        shared == SelectSeq(docs[i], LAMBDA k : \E j \in DOMAIN docs[i + 1] : docs[i + 1][j] = k)
    IN  StrLen(JoinDocs(SplitOnSeparator(t), shared))

\* C8 (as claimed): every chunk get_text_chunks returns has at most 1000
\* characters and consecutive chunks share at most 200 characters.
C8_ChunksBounded ==
    ("get_text_chunks" \in calls /\ "split" \notin raised) =>
        /\ \A i \in DOMAIN text_chunks : StrLen(text_chunks[i]) <= ChunkSize
        /\ \A i \in 1..(Len(text_chunks) - 1) : Overlap(raw_text, i) <= ChunkOverlap

\* C9: qa_chain.invoke is called at most once per run, with the full extracted
\* text as the query; a finished run called it exactly once iff extraction
\* returned non-empty text, get_vectorstore returned an index and neither
\* ChatGroq nor the chain construction raised.
C9_SingleInvoke ==
    /\ invokeCalls <= 1
    /\ invokeCalls = 1 => query = Some(raw_text)
    /\ pc = "done" =>
          (invokeCalls = 1 <=>
              /\ "get_pdf_text" \in calls
              /\ raw_text # << >>
              /\ vectorstore = "index"
              /\ raised \cap {"ChatGroq", "chain"} = {})

C9_Witness == pc = "done" /\ invokeCalls = 1 /\ "timeout" \in raised

\* C10 (as claimed): a finished run ends with a final outcome as its last
\* message: an error, or the summary with a download of the same text; a run
\* that reached the summary step ends with the summary or the summary error.
C10_FinalOutcomeShown ==
    pc = "done" =>
        /\ ui # << >>
        /\ Last(ui) \in {"no_text", "embed_error", "summary_error", "outer_error", "summary"}
        /\ Last(ui) = "summary" => (download = blog_summary /\ blog_summary = response)
        /\ "ChatGroq" \in calls => Last(ui) \in {"summary", "summary_error"}

====
